---- MODULE Spec2Model ----
(***************************************************************************)
(* Block Puzzle (3 pieces at a time): the Game object of Block_Puzzle.py   *)
(* and the event loop of main() that drives it.                            *)
(*                                                                         *)
(* Indices follow the source: grid[x][y] with x a column and y a row,      *)
(* both from 0; pieces, piece_colors and used are indexed 0..2.  A piece   *)
(* is a matrix of rows, a TLA+ sequence of sequences, so the source's      *)
(* piece[py][px] is piece[py+1][px+1] here.                                *)
(*                                                                         *)
(* Particles, sounds and drawing are left out: no operation of the Game    *)
(* reads them.  save_highscore only writes a file that is read again at    *)
(* the next process start, so it has no effect on the state modelled.      *)
(***************************************************************************)
EXTENDS Integers, Sequences, FiniteSets

\* ----------------------------- bounds ---------------------------------
\* The board is GRID_COLS x GRID_ROWS (10 x 10 in the source, line 24).
GRID_COLS == 3
GRID_ROWS == 3
\* len(PARTICLE_COLORS) (5 in the source, line 39).
NumColors == 1
\* The tags (1 .. MaxTag) on the boards clear_full_lines is applied to as a
\* function; the source writes tags 1 .. 5.
MaxTag == 2
\* Placements are explored while the score is below MaxScore.
MaxScore == 40
\* The catalog entries (0-based indices into PIECES) random_piece draws
\* from: the single cell, the small L (3 cells), the Z (4 cells).
SampledShapes == {0, 7, 13}
\* The values load_highscore may find in the highscore file.
StoredHighscores == {0}

\* ----------------------------- constants ------------------------------
SCORE_PER_BLOCK == 10
ROWCOL_CLEAR_BONUS == 50

PIECES ==
  << << <<1>> >>,
     << <<1,1>> >>,
     << <<1,1,1>> >>,
     << <<1,1,1,1>> >>,
     << <<1>>, <<1>> >>,
     << <<1>>, <<1>>, <<1>> >>,
     << <<1,1>>, <<1,1>> >>,
     << <<1,0>>, <<1,1>> >>,
     << <<0,1>>, <<1,1>> >>,
     << <<1,1,1>>, <<0,1,0>> >>,
     << <<1,0>>, <<1,0>>, <<1,1>> >>,
     << <<0,1>>, <<0,1>>, <<1,1>> >>,
     << <<1,0,0>>, <<1,1,1>> >>,
     << <<1,1,0>>, <<0,1,1>> >>,
     << <<0,1,1>>, <<1,1,0>> >>,
     << <<1,1,1>>, <<1,0,0>> >> >>

VARIABLES
  grid,          \* Game.grid
  score,         \* Game.score
  highscore,     \* Game.highscore
  pieces,        \* Game.pieces
  piece_colors,  \* Game.piece_colors
  used,          \* Game.used
  game_over,     \* Game.game_over
  state,         \* main: "menu", "play" or "highscore"
  call           \* history: the last __init__, reset or successful place_piece

vars == <<grid, score, highscore, pieces, piece_colors, used, game_over,
          state, call>>

gameVars == <<grid, score, highscore, pieces, piece_colors, used, game_over>>

Cols == 0 .. GRID_COLS - 1
Rows == 0 .. GRID_ROWS - 1
Idx == 0 .. 2

EmptyGrid == [x \in Cols |-> [y \in Rows |-> 0]]

\* random_piece(): a copy of one catalog entry.
random_piece == { PIECES[i + 1] : i \in SampledShapes }

\* The three pieces and the three colours one spawn draws.
Triplets == [Idx -> random_piece]
ColorTriplets == [Idx -> 0 .. NumColors - 1]

\* --------------------------- Game methods -----------------------------
\* can_place_piece with the right and bottom edge tests off by one (>= for
\* >): a piece that touches the far edge is refused.
can_place_piece_EdgeRefused(g, piece, drop_x, drop_y) ==
  LET h == Len(piece)
      w == Len(piece[1])
  IN IF drop_x < 0 \/ drop_y < 0 \/ drop_x + w >= GRID_COLS \/ drop_y + h >= GRID_ROWS
       THEN FALSE
       ELSE \A px \in 0 .. w - 1 : \A py \in 0 .. h - 1 :
              piece[py + 1][px + 1] # 0 => g[drop_x + px][drop_y + py] = 0

\* Lines 156-167.
can_place_piece(g, piece, drop_x, drop_y) ==
  LET h == Len(piece)
      w == Len(piece[1])
  IN IF drop_x < 0 \/ drop_y < 0 \/ drop_x + w > GRID_COLS \/ drop_y + h > GRID_ROWS
       THEN FALSE
       ELSE \A px \in 0 .. w - 1 : \A py \in 0 .. h - 1 :
              piece[py + 1][px + 1] # 0 => g[drop_x + px][drop_y + py] = 0

\* any_valid_for_index scanning range(GRID_COLS - w) and range(GRID_ROWS - h),
\* without the + 1: the last anchor of each axis is never tried.
any_valid_for_index_ShortScan(g, ps, u, index) ==
  IF u[index]
    THEN FALSE
    ELSE LET piece == ps[index]
             h == Len(piece)
             w == Len(piece[1])
         IN \E gx \in 0 .. GRID_COLS - w - 1 : \E gy \in 0 .. GRID_ROWS - h - 1 :
              can_place_piece(g, piece, gx, gy)

\* any_valid_for_index without the self.used[index] test: a piece already
\* placed still counts as a move.
any_valid_for_index_IgnoresUsed(g, ps, u, index) ==
  LET piece == ps[index]
      h == Len(piece)
      w == Len(piece[1])
  IN \E gx \in 0 .. GRID_COLS - w : \E gy \in 0 .. GRID_ROWS - h :
       can_place_piece(g, piece, gx, gy)

\* Lines 169-179.
any_valid_for_index(g, ps, u, index) ==
  IF u[index]
    THEN FALSE
    ELSE LET piece == ps[index]
             h == Len(piece)
             w == Len(piece[1])
         IN \E gx \in 0 .. GRID_COLS - w : \E gy \in 0 .. GRID_ROWS - h :
              can_place_piece(g, piece, gx, gy)

\* any_move_exists looping over range(2): the third piece is never asked.
any_move_exists_FirstTwo(g, ps, u) ==
  \E i \in 0 .. 1 : any_valid_for_index(g, ps, u, i)

\* Lines 181-186.
any_move_exists(g, ps, u) ==
  \E i \in Idx : any_valid_for_index(g, ps, u, i)

\* The nonzero cells of column c from row y down, top to bottom.
RECURSIVE NonZeroFrom(_, _)
NonZeroFrom(c, y) ==
  IF y >= GRID_ROWS
    THEN << >>
    ELSE (IF c[y] # 0 THEN << c[y] >> ELSE << >>) \o NonZeroFrom(c, y + 1)

\* The collapse padding one cell too many (GRID_ROWS - len(col) + 1): the
\* lowest cell of every column that holds one falls off the board.
Collapse_DropsCell(g) ==
  [x \in Cols |->
     LET col == NonZeroFrom(g[x], 0)
         pad == IF Len(col) > 0 THEN GRID_ROWS - Len(col) + 1 ELSE GRID_ROWS
     IN [y \in Rows |-> IF y < pad THEN 0 ELSE col[y - pad + 1]]]

\* The collapse stacking the cells it collected in reverse order.
Collapse_Reversed(g) ==
  [x \in Cols |->
     LET col == NonZeroFrom(g[x], 0)
         pad == GRID_ROWS - Len(col)
     IN [y \in Rows |-> IF y < pad THEN 0 ELSE col[Len(col) - (y - pad)]]]

\* The collapse packing to the low-y end (col + zeros).
Collapse_ToTop(g) ==
  [x \in Cols |->
     LET col == NonZeroFrom(g[x], 0)
     IN [y \in Rows |-> IF y < Len(col) THEN col[y + 1] ELSE 0]]

\* Lines 256-260: every column packed to the high-y end.
Collapse(g) ==
  [x \in Cols |->
     LET col == NonZeroFrom(g[x], 0)
         pad == GRID_ROWS - Len(col)
     IN [y \in Rows |-> IF y < pad THEN 0 ELSE col[y - pad + 1]]]

\* Lines 229-240: the full rows are found, then zeroed.
RowsToClear(g) == { y \in Rows : \A x \in Cols : g[x][y] # 0 }
ClearRows(g, ys) ==
  [x \in Cols |-> [y \in Rows |-> IF y \in ys THEN 0 ELSE g[x][y]]]

\* The column scan stopping one column short (range(GRID_COLS - 1)).
ColsToClear_SkipsLast(g) ==
  { x \in 0 .. GRID_COLS - 2 : \A y \in Rows : g[x][y] # 0 }

\* Lines 242-253: the full columns are found, then zeroed.
ColsToClear(g) == { x \in Cols : \A y \in Rows : g[x][y] # 0 }
ClearCols(g, xs) ==
  [x \in Cols |-> [y \in Rows |-> IF x \in xs THEN 0 ELSE g[x][y]]]

\* Lines 229-253: the grid after both clearing passes, before the collapse.
ZeroFullLines(g) ==
  LET g1 == ClearRows(g, RowsToClear(g))
  IN ClearCols(g1, ColsToClear(g1))

\* clear_full_lines collapsing the columns whether or not a line cleared.
clear_full_lines_AlwaysCollapse(g) ==
  LET rows_to_clear == RowsToClear(g)
      g1 == ClearRows(g, rows_to_clear)
      cols_to_clear == ColsToClear(g1)
      g2 == ClearCols(g1, cols_to_clear)
      cleared == Cardinality(rows_to_clear) + Cardinality(cols_to_clear)
  IN [grid |-> Collapse(g2), cleared |-> cleared]

\* The grid clear_full_lines leaves and the count it returns.  The columns
\* are scanned on the grid the row pass has already zeroed.
clear_full_lines(g) ==
  LET rows_to_clear == RowsToClear(g)
      g1 == ClearRows(g, rows_to_clear)
      cols_to_clear == ColsToClear(g1)
      g2 == ClearCols(g1, cols_to_clear)
      cleared == Cardinality(rows_to_clear) + Cardinality(cols_to_clear)
  IN [grid |-> IF cleared > 0 THEN Collapse(g2) ELSE g2,
      cleared |-> cleared]

\* The placement loop without the test of piece[py][px]: the whole
\* bounding box of the piece is written.
WritePiece_FillsBox(g, piece, gx, gy, color_id) ==
  [x \in Cols |-> [y \in Rows |->
     IF /\ x - gx \in 0 .. Len(piece[1]) - 1
        /\ y - gy \in 0 .. Len(piece) - 1
       THEN color_id
       ELSE g[x][y]]]

\* Lines 196-200: the grid with color_id written into the covered cells.
WritePiece(g, piece, gx, gy, color_id) ==
  [x \in Cols |-> [y \in Rows |->
     IF /\ x - gx \in 0 .. Len(piece[1]) - 1
        /\ y - gy \in 0 .. Len(piece) - 1
        /\ piece[y - gy + 1][x - gx + 1] # 0
       THEN color_id
       ELSE g[x][y]]]

\* Lines 195-200: the cells the placement loop counts.
PlacedBlocks(piece) ==
  Cardinality({ c \in (0 .. Len(piece) - 1) \X (0 .. Len(piece[1]) - 1) :
                  piece[c[1] + 1][c[2] + 1] # 0 })

\* What a place_piece call that returns False leaves behind.
Rejected ==
  [ret |-> FALSE, grid |-> grid, score |-> score, highscore |-> highscore,
   pieces |-> pieces, piece_colors |-> piece_colors, used |-> used,
   placed_blocks |-> 0, clears |-> 0, spawned |-> FALSE]

\* any(self.used) in place of all(self.used): a respawn after every
\* placement.
AllUsed_Any(u) == \E i \in Idx : u[i]

\* Line 217: all(self.used).
AllUsed(u) == \A i \in Idx : u[i]

\* The highscore test turned round (score < highscore): a score above the
\* highscore is never taken over.
UpdateHighscore_Never(sc, hs) == IF sc < hs THEN sc ELSE hs

\* Lines 220-221.
UpdateHighscore(sc, hs) == IF sc > hs THEN sc ELSE hs

\* The rejection test without self.used[index]: a piece already placed
\* can be placed again.
PlacementRejected_IgnoresUsed(index, gx, gy) ==
  \/ index < 0
  \/ index > 2
  \/ ~can_place_piece(grid, pieces[index], gx, gy)

\* Lines 189-193: the conditions under which place_piece returns False,
\* tested left to right as the source does.
PlacementRejected(index, gx, gy) ==
  \/ index < 0
  \/ index > 2
  \/ used[index]
  \/ ~can_place_piece(grid, pieces[index], gx, gy)

\* Line 201.
MarkUsed(u, index) == [u EXCEPT ![index] = TRUE]

\* The placement points counted once per piece instead of once per block.
PlacementScore_PerPiece(placed_blocks) == SCORE_PER_BLOCK

\* Line 209: the points for the placement itself.
PlacementScore(placed_blocks) == placed_blocks * SCORE_PER_BLOCK

\* Lines 213-215: the points for the lines cleared.
ClearBonus(clears) == IF clears > 0 THEN ROWCOL_CLEAR_BONUS * clears ELSE 0

\* place_piece(index, gx, gy) on the current Game: its return value and
\* the fields it leaves.  np and nc are the pieces and colours the random
\* sampler hands to spawn_new_triplet if the call reaches it.
place_piece(index, gx, gy, np, nc) ==
  IF PlacementRejected(index, gx, gy)
    THEN Rejected
    ELSE
      LET piece == pieces[index]
          color_id == piece_colors[index] + 1
          placed == WritePiece(grid, piece, gx, gy, color_id)
          placed_blocks == PlacedBlocks(piece)
          used1 == MarkUsed(used, index)
          score1 == score + PlacementScore(placed_blocks)
          cl == clear_full_lines(placed)
          score2 == score1 + ClearBonus(cl.cleared)
          spawn == AllUsed(used1)
      IN [ret |-> TRUE,
          grid |-> cl.grid,
          score |-> score2,
          highscore |-> UpdateHighscore(score2, highscore),
          pieces |-> IF spawn THEN np ELSE pieces,
          piece_colors |-> IF spawn THEN nc ELSE piece_colors,
          used |-> IF spawn THEN [i \in Idx |-> FALSE] ELSE used1,
          placed_blocks |-> placed_blocks,
          clears |-> cl.cleared,
          spawned |-> spawn]

\* ------------------------------ history --------------------------------
\* call records the last call that rebuilt or filled the board: "init" for
\* Game.__init__, "reset" for reset, "place_piece" for a place_piece that
\* returned True, with the locals placed_blocks and clears of that call and
\* whether it reached spawn_new_triplet.
NoCall(op) ==
  [op |-> op, placed_blocks |-> 0, clears |-> 0, spawned |-> FALSE]

\* ------------------------------- Init ----------------------------------
\* Game.__init__ (lines 132-140) and the locals of main (lines 399-403).
Init ==
  /\ grid = EmptyGrid
  /\ score = 0
  /\ highscore \in StoredHighscores
  /\ pieces \in Triplets
  /\ piece_colors \in ColorTriplets
  /\ used = [i \in Idx |-> FALSE]
  /\ game_over = FALSE
  /\ state = "menu"
  /\ call = NoCall("init")

\* ------------------------------ handlers -------------------------------
\* reset without self.game_over = False.
reset_KeepsGameOver ==
  /\ grid' = EmptyGrid
  /\ score' = 0
  /\ pieces' \in Triplets
  /\ piece_colors' \in ColorTriplets
  /\ used' = [i \in Idx |-> FALSE]
  /\ call' = NoCall("reset")
  /\ UNCHANGED <<highscore, game_over>>

\* Game.reset (lines 142-149).
reset ==
  /\ grid' = EmptyGrid
  /\ score' = 0
  /\ pieces' \in Triplets
  /\ piece_colors' \in ColorTriplets
  /\ used' = [i \in Idx |-> FALSE]
  /\ game_over' = FALSE
  /\ call' = NoCall("reset")
  /\ UNCHANGED highscore

\* Menu, the Start entry: Return / Space with it highlighted (lines 427-430)
\* or a mouse click on it (lines 448-458).  Up / Down can highlight any
\* entry (lines 423-426), so which entry is activated is an input; the
\* Quit entry ends the program.
MenuStart ==
  /\ state = "menu"
  /\ reset
  /\ state' = "play"

\* Menu, the Highscore entry (lines 431-432, 459-460).
MenuHighscore ==
  /\ state = "menu"
  /\ state' = "highscore"
  /\ UNCHANGED <<gameVars, call>>

\* Highscore screen, Backspace / Escape (lines 436-438).
HighscoreBack ==
  /\ state = "highscore"
  /\ state' = "menu"
  /\ UNCHANGED <<gameVars, call>>

\* Play, key R (lines 439-441).
KeyR ==
  /\ state = "play"
  /\ reset
  /\ UNCHANGED state

\* Key Escape also clearing the game-over flag on the way to the menu.
KeyEscape_ClearsGameOver ==
  /\ state = "play"
  /\ state' = "menu"
  /\ game_over' = FALSE
  /\ UNCHANGED <<grid, score, highscore, pieces, piece_colors, used, call>>

\* Play, key Escape (lines 444-446).
KeyEscape ==
  /\ state = "play"
  /\ state' = "menu"
  /\ UNCHANGED <<gameVars, call>>

\* The pieces and colours the sampler may hand to a placement of index i:
\* spawn_new_triplet draws only when the placement uses up the triplet.
SpawnPieces(i) ==
  IF AllUsed(MarkUsed(used, i)) THEN Triplets ELSE {pieces}
SpawnColors(i) ==
  IF AllUsed(MarkUsed(used, i)) THEN ColorTriplets ELSE {piece_colors}

\* Lines 471-472: the indices the click loop would accept at (gx, gy).
Fits(gx, gy) ==
  { i \in Idx : ~used[i] /\ can_place_piece(grid, pieces[i], gx, gy) }

\* The click loop without its break: the last index that fits is placed.
FirstFit_Last(gx, gy) ==
  CHOOSE i \in Fits(gx, gy) : \A j \in Fits(gx, gy) : i >= j

\* Lines 471-475: the loop breaks at the first index that fits.
FirstFit(gx, gy) ==
  CHOOSE i \in Fits(gx, gy) : \A j \in Fits(gx, gy) : i <= j

\* Lines 477-478 and 484-487: game_over is only ever set, never cleared.
GameOverAfter(go, g, ps, u) ==
  IF ~any_move_exists(g, ps, u) THEN TRUE ELSE go

\* Play, left click on grid cell (gx, gy), screen_to_grid having returned
\* a cell (lines 463-478).
ClickPlay(gx, gy) ==
  /\ state = "play"
  /\ score < MaxScore
  /\ IF game_over
       THEN UNCHANGED vars
       ELSE IF Fits(gx, gy) # {}
         THEN LET i == FirstFit(gx, gy)
              IN \E np \in SpawnPieces(i) : \E nc \in SpawnColors(i) :
                   LET r == place_piece(i, gx, gy, np, nc)
                   IN /\ grid' = r.grid
                      /\ score' = r.score
                      /\ highscore' = r.highscore
                      /\ pieces' = r.pieces
                      /\ piece_colors' = r.piece_colors
                      /\ used' = r.used
                      /\ game_over' = GameOverAfter(game_over, r.grid, r.pieces, r.used)
                      /\ call' = [op |-> "place_piece",
                                  placed_blocks |-> r.placed_blocks,
                                  clears |-> r.clears, spawned |-> r.spawned]
                      /\ UNCHANGED state
         ELSE /\ game_over' = GameOverAfter(game_over, grid, pieces, used)
              /\ UNCHANGED <<grid, score, highscore, pieces, piece_colors,
                             used, state, call>>

\* Play, a click for which screen_to_grid returns None, or a button other
\* than the left one (lines 464-467): nothing is touched.
ClickPlayMiss ==
  /\ state = "play"
  /\ UNCHANGED vars

\* The update step of a frame in play state (lines 481-491).
FrameUpdate ==
  /\ state = "play"
  /\ game_over' = IF ~game_over
                    THEN GameOverAfter(game_over, grid, pieces, used)
                    ELSE game_over
  /\ highscore' = UpdateHighscore(score, highscore)
  /\ UNCHANGED <<grid, score, pieces, piece_colors, used, state, call>>

Next ==
  \/ MenuStart
  \/ MenuHighscore
  \/ HighscoreBack
  \/ KeyR
  \/ KeyEscape
  \/ \E gx \in Cols : \E gy \in Rows : ClickPlay(gx, gy)
  \/ ClickPlayMiss
  \/ FrameUpdate

Spec == Init /\ [][Next]_vars

\* ------------------- can_place_piece as a function --------------------
\* Every board of the model's size, every catalog shape and every anchor
\* from one cell outside the board on each side: one call of
\* can_place_piece, recorded in call with its return value.
Boards == [Cols -> [Rows -> 0 .. NumColors]]
Anchors == (-1 .. GRID_COLS) \X (-1 .. GRID_ROWS)

InitCanPlace ==
  /\ grid \in Boards
  /\ score = 0
  /\ highscore = 0
  /\ pieces = [i \in Idx |-> PIECES[1]]
  /\ piece_colors = [i \in Idx |-> 0]
  /\ used = [i \in Idx |-> FALSE]
  /\ game_over = FALSE
  /\ state = "play"
  /\ call = NoCall("init")

CanPlaceCall(s, a) ==
  /\ call.op = "init"
  /\ call' = [op |-> "can_place_piece", piece |-> PIECES[s],
              drop_x |-> a[1], drop_y |-> a[2],
              ret |-> can_place_piece(grid, PIECES[s], a[1], a[2])]
  /\ UNCHANGED <<gameVars, state>>

NextCanPlace == \E s \in 1 .. Len(PIECES) : \E a \in Anchors : CanPlaceCall(s, a)

SpecCanPlace == InitCanPlace /\ [][NextCanPlace]_vars

\* ------------------- clear_full_lines as a function -------------------
\* Every board of the model's size with tags 0 .. MaxTag: one call of
\* clear_full_lines, recorded in call with the board it was given, the
\* board after the clearing passes and the count returned.
TaggedBoards == [Cols -> [Rows -> 0 .. MaxTag]]

InitClear ==
  /\ grid \in TaggedBoards
  /\ score = 0
  /\ highscore = 0
  /\ pieces = [i \in Idx |-> PIECES[1]]
  /\ piece_colors = [i \in Idx |-> 0]
  /\ used = [i \in Idx |-> FALSE]
  /\ game_over = FALSE
  /\ state = "play"
  /\ call = NoCall("init")

ClearCall ==
  /\ call.op = "init"
  /\ call' = [op |-> "clear_full_lines", before |-> grid,
              zeroed |-> ZeroFullLines(grid),
              cleared |-> clear_full_lines(grid).cleared]
  /\ grid' = clear_full_lines(grid).grid
  /\ UNCHANGED <<score, highscore, pieces, piece_colors, used, game_over, state>>

NextClear == ClearCall

SpecClear == InitClear /\ [][NextClear]_vars

\* ======================= properties of the program =====================
\* The cells a piece occupies, as (px, py) offsets from its anchor.
OccupiedCells(piece) ==
  { c \in (0 .. Len(piece[1]) - 1) \X (0 .. Len(piece) - 1) :
      piece[c[2] + 1][c[1] + 1] = 1 }

\* Every occupied cell of the piece, moved to the anchor, is a cell of the
\* board and that cell is empty.
InGridAndEmpty(g, piece, x, y) ==
  \A c \in OccupiedCells(piece) :
    /\ x + c[1] \in Cols
    /\ y + c[2] \in Rows
    /\ g[x + c[1]][y + c[2]] = 0

RowIsFull(g, y) == \A x \in Cols : g[x][y] # 0
ColIsFull(g, x) == \A y \in Rows : g[x][y] # 0
FullLineCount(g) ==
  Cardinality({ y \in Rows : RowIsFull(g, y) }) +
  Cardinality({ x \in Cols : ColIsFull(g, x) })

\* No pending piece that is still unused fits anywhere on the board.
NoLegalMove ==
  \A i \in Idx : ~used[i] =>
    \A x \in Cols : \A y \in Rows : ~InGridAndEmpty(grid, pieces[i], x, y)

\* The board right after the click handler's place_piece has written the
\* piece and before clear_full_lines runs.
BoardWithPiece(i, gx, gy) ==
  WritePiece(grid, pieces[i], gx, gy, piece_colors[i] + 1)

\* A left click on (gx, gy) in this state reaches place_piece.
ClickPlaces(gx, gy) ==
  state = "play" /\ ~game_over /\ Fits(gx, gy) # {}

\* C1: clear_full_lines counts the rows and the columns that are full when
\* it is called: whenever a click places a piece, the call reports as many
\* lines as the board with the piece written has full rows plus full
\* columns, and the score grows by the placement points plus
\* ROWCOL_CLEAR_BONUS for each of them.
C1_ClearsCountSnapshotLines ==
  \A gx \in Cols : \A gy \in Rows :
    ClickPlaces(gx, gy) =>
      LET i == FirstFit(gx, gy)
          n == FullLineCount(BoardWithPiece(i, gx, gy))
          r == place_piece(i, gx, gy, pieces, piece_colors)
      IN /\ r.clears = n
         /\ r.score = score + Cardinality(OccupiedCells(pieces[i])) * SCORE_PER_BLOCK
                            + n * ROWCOL_CLEAR_BONUS

\* C2: after clear_full_lines has returned (the board is as the last
\* successful place_piece left it), no row and no column is full.
C2_NoFullLineAfterClear ==
  call.op = "place_piece" =>
    /\ \A y \in Rows : ~RowIsFull(grid, y)
    /\ \A x \in Cols : ~ColIsFull(grid, x)

\* C3: a second clear_full_lines right after the first (no placement in
\* between) returns 0 and leaves the board as it is.
C3_SecondClearReturnsZero ==
  call.op = "place_piece" =>
    /\ clear_full_lines(grid).cleared = 0
    /\ clear_full_lines(grid).grid = grid

\* C4: can_place_piece returns true exactly when every occupied cell of
\* the shape, moved to the anchor, is a cell of the board and is empty;
\* for every catalog shape, every board and every anchor, the anchors
\* outside the board included.
C4_CanPlaceIffCellsFree ==
  call.op = "can_place_piece" =>
    (call.ret <=> InGridAndEmpty(grid, call.piece, call.drop_x, call.drop_y))

\* A call that returns true although the board is filled inside the
\* piece's bounding box, under a cell the piece leaves open.
C4_Witness ==
  /\ call.op = "can_place_piece"
  /\ call.ret
  /\ \E px \in 0 .. Len(call.piece[1]) - 1 : \E py \in 0 .. Len(call.piece) - 1 :
       /\ call.piece[py + 1][px + 1] = 0
       /\ grid[call.drop_x + px][call.drop_y + py] # 0

\* C5: in play state, after any click has been handled, game_over is true
\* exactly when no unused pending piece has a legal placement anywhere.
C5_GameOverIffNoMove ==
  state = "play" => (game_over <=> NoLegalMove)

\* Game over found right after a placement that spawned a new triplet.
C5_Witness ==
  /\ state = "play"
  /\ call.op = "place_piece"
  /\ call.spawned
  /\ game_over

\* C6: once game_over is true, every step that is not a reset keeps it
\* true and leaves grid, pieces, used and score as they are.
C6_GameOverPermanent ==
  [][(game_over /\ ~(KeyR \/ MenuStart)) =>
       (game_over' /\ UNCHANGED <<grid, pieces, used, score>>)]_vars

\* Game over carried through Escape and the menu to the highscore screen.
C6_Witness ==
  game_over /\ state = "highscore"

\* C7: in every game-over state no placement goes through: place_piece
\* returns False and changes nothing for every index and anchor, and the
\* click loop finds no piece to place on any cell.
C7_GameOverRejectsPlacement ==
  game_over =>
    /\ \A index \in -1 .. 3 : \A a \in Anchors :
         LET r == place_piece(index, a[1], a[2], pieces, piece_colors)
         IN /\ r.ret = FALSE
            /\ r.grid = grid
            /\ r.pieces = pieces
            /\ r.used = used
            /\ r.score = score
    /\ \A gx \in Cols : \A gy \in Rows : Fits(gx, gy) = {}

\* A game-over board that still has an empty cell.
C7_Witness ==
  /\ game_over
  /\ call.op = "place_piece"
  /\ \E x \in Cols : \E y \in Rows : grid[x][y] = 0

\* C8: place_piece with an index out of 0..2, with the index of a used
\* piece, or with an anchor where the piece does not fit, returns False
\* and leaves grid, pieces, piece_colors, used, score and highscore alone.
C8_RejectedCallChangesNothing ==
  \A index \in -1 .. 3 : \A a \in Anchors :
    (\/ index \notin Idx
     \/ used[index]
     \/ ~InGridAndEmpty(grid, pieces[index], a[1], a[2]))
    => LET r == place_piece(index, a[1], a[2], pieces, piece_colors)
       IN /\ r.ret = FALSE
          /\ r.grid = grid
          /\ r.pieces = pieces
          /\ r.piece_colors = piece_colors
          /\ r.used = used
          /\ r.score = score
          /\ r.highscore = highscore

\* A used piece that would still fit on the board: the call is refused
\* for the used flag alone.
C8_Witness ==
  \E i \in Idx : \E x \in Cols : \E y \in Rows :
    /\ used[i]
    /\ InGridAndEmpty(grid, pieces[i], x, y)
    /\ place_piece(i, x, y, pieces, piece_colors).ret = FALSE

\* C9: a successful place_piece of a piece with n cells raises the score
\* by n * SCORE_PER_BLOCK plus ROWCOL_CLEAR_BONUS for each line that
\* clear_full_lines reports; 40 for a 4-cell piece that clears nothing.
C9_ScoreDelta ==
  \A i \in Idx : \A gx \in Cols : \A gy \in Rows :
    (~used[i] /\ InGridAndEmpty(grid, pieces[i], gx, gy)) =>
      LET r == place_piece(i, gx, gy, pieces, piece_colors)
          n == Cardinality(OccupiedCells(pieces[i]))
          c == clear_full_lines(BoardWithPiece(i, gx, gy)).cleared
      IN /\ r.ret
         /\ r.placed_blocks = n
         /\ r.clears = c
         /\ r.score = score + n * SCORE_PER_BLOCK + c * ROWCOL_CLEAR_BONUS
         /\ (n = 4 /\ c = 0) => r.score = score + 40

\* The first placement of a game: a 4-cell piece, nothing cleared, 40.
C9_Witness ==
  /\ call.op = "place_piece"
  /\ call.placed_blocks = 4
  /\ call.clears = 0
  /\ score = 40

\* C10: a placement (the only step that raises the score) respawns the
\* triplet (all flags false, new pieces and colours drawn) exactly when it
\* used up the last unused piece; any other placement turns exactly one
\* flag from false to true and leaves pieces, colours and the other flags
\* alone.  After it some piece is unused, and no step turns a flag from
\* true to false without turning all three false.
C10_RespawnOnlyWhenExhausted ==
  [][/\ score' > score =>
          LET unused == { j \in Idx : ~used[j] }
          IN /\ call'.op = "place_piece"
             /\ call'.spawned <=> Cardinality(unused) = 1
             /\ IF Cardinality(unused) = 1
                  THEN /\ used' = [j \in Idx |-> FALSE]
                       /\ pieces' \in Triplets
                       /\ piece_colors' \in ColorTriplets
                  ELSE /\ \E i \in unused : used' = [used EXCEPT ![i] = TRUE]
                       /\ pieces' = pieces
                       /\ piece_colors' = piece_colors
             /\ \E j \in Idx : ~used'[j]
     /\ (\E j \in Idx : used[j] /\ ~used'[j]) => used' = [j \in Idx |-> FALSE]
    ]_vars

\* The state right after a placement that used up the triplet.
C10_Witness ==
  /\ call.op = "place_piece"
  /\ call.spawned
  /\ \A j \in Idx : ~used[j]

\* The nonzero cells of a column, as the set of rows that hold one.
FilledRows(c) == { y \in Rows : c[y] # 0 }

\* The tags of the nonzero cells of column c at rows lo .. GRID_ROWS - 1,
\* top to bottom.
RECURSIVE TagsFrom(_, _)
TagsFrom(c, lo) ==
  IF lo \notin Rows
    THEN << >>
    ELSE IF c[lo] = 0
      THEN TagsFrom(c, lo + 1)
      ELSE << c[lo] >> \o TagsFrom(c, lo + 1)

\* C11: the collapse only moves cells: after a call that cleared a line,
\* every column holds as many nonzero cells as it held right after the
\* full lines were zeroed (and so does the whole board).
C11_CollapseKeepsCellCount ==
  (call.op = "clear_full_lines" /\ call.cleared > 0) =>
    \A x \in Cols :
      Cardinality(FilledRows(grid[x])) = Cardinality(FilledRows(call.zeroed[x]))

\* A call that cleared a line and left a cell that the collapse moved.
C11_Witness ==
  /\ call.op = "clear_full_lines"
  /\ call.cleared > 0
  /\ \E x \in Cols : /\ FilledRows(grid[x]) # {}
                     /\ FilledRows(grid[x]) # FilledRows(call.zeroed[x])

\* C12: after a call that cleared a line, every column is zeros at the
\* low-y end followed by its surviving cells packed at the high-y end, with
\* the tags and the top-to-bottom order they had before the collapse.
C12_ColumnsPackedInOrder ==
  (call.op = "clear_full_lines" /\ call.cleared > 0) =>
    \A x \in Cols :
      /\ TagsFrom(grid[x], 0) = TagsFrom(call.zeroed[x], 0)
      /\ \A y \in Rows : grid[x][y] # 0 =>
           \A y2 \in Rows : y2 > y => grid[x][y2] # 0

\* A column whose two survivors carry different tags and both moved down.
C12_Witness ==
  /\ call.op = "clear_full_lines"
  /\ call.cleared > 0
  /\ \E x \in Cols :
       /\ Len(TagsFrom(grid[x], 0)) >= 2
       /\ TagsFrom(grid[x], 0)[1] # TagsFrom(grid[x], 0)[2]
       /\ grid[x] # call.zeroed[x]

\* C13: any_move_exists is true exactly when some pending piece is unused
\* and can_place_piece accepts it at some anchor, the anchors outside the
\* ranges any_valid_for_index scans included; a used piece never counts.
C13_AnyMoveIffUnusedPieceFits ==
  any_move_exists(grid, pieces, used) <=>
    \E i \in Idx : /\ ~used[i]
                   /\ \E a \in Anchors : can_place_piece(grid, pieces[i], a[1], a[2])

\* No move exists although a piece that is already used would still fit.
C13_Witness ==
  /\ state = "play"
  /\ ~any_move_exists(grid, pieces, used)
  /\ \E i \in Idx : /\ used[i]
                    /\ \E a \in Anchors : can_place_piece(grid, pieces[i], a[1], a[2])

\* Some unused piece of ps fits somewhere on board g.
SomeMove(g, ps, u) ==
  \E i \in Idx : /\ ~u[i]
                 /\ \E x \in Cols : \E y \in Rows : InGridAndEmpty(g, ps[i], x, y)

\* C14: every reset (key R in play, Start in the menu), from any state,
\* leaves an empty board, score 0, game_over false and a fresh triplet with
\* no piece used, for which a move exists; and while the board is as reset
\* left it game_over stays false.
C14_ResetStartsFreshGame ==
  [][/\ (KeyR \/ MenuStart) =>
          /\ grid' = EmptyGrid
          /\ score' = 0
          /\ ~game_over'
          /\ used' = [i \in Idx |-> FALSE]
          /\ pieces' \in Triplets
          /\ piece_colors' \in ColorTriplets
          /\ SomeMove(grid', pieces', used')
     /\ call'.op = "reset" => ~game_over'
    ]_vars

\* A game restarted after an earlier one had scored.
C14_Witness ==
  /\ call.op = "reset"
  /\ state = "play"
  /\ highscore > 0
  /\ score = 0
  /\ ~game_over

\* C15: highscore is at least score after every step, it never decreases,
\* and a reset leaves it as it is while it zeroes the score.
C15_HighscoreFollowsScore ==
  [][/\ highscore' >= score'
     /\ highscore' >= highscore
     /\ (KeyR \/ MenuStart) => (highscore' = highscore /\ score' = 0)
    ]_vars

\* A placement in a later game that has not yet reached the highscore.
C15_Witness ==
  /\ call.op = "place_piece"
  /\ score > 0
  /\ highscore > score

\* The board on which row 0 is filled except for its last cell, no other
\* row is full, and the last column keeps a gap once that cell is filled.
LastCol == GRID_COLS - 1
TopRowLacksCorner ==
  /\ \A x \in Cols : (grid[x][0] # 0) <=> (x # LastCol)
  /\ \A y \in Rows \ {0} : ~RowIsFull(grid, y)
  /\ \E y \in Rows \ {0} : grid[LastCol][y] = 0
  /\ \A x \in Cols \ {LastCol} : ~ColIsFull(grid, x)

\* C16: on such a board, placing a 1x1 piece on the last cell of row 0
\* makes clear_full_lines return 1 and leaves row 0 all zero.
C16_TopRowClearedStaysEmpty ==
  \A i \in Idx :
    (~used[i] /\ pieces[i] = << <<1>> >> /\ TopRowLacksCorner) =>
      LET r == place_piece(i, LastCol, 0, pieces, piece_colors)
      IN /\ r.ret
         /\ r.clears = 1
         /\ \A x \in Cols : r.grid[x][0] = 0

\* Such a board in play, with cells below row 0 for gravity to act on and
\* a 1x1 piece that a click on the corner places.
C16_Witness ==
  /\ state = "play"
  /\ ~game_over
  /\ TopRowLacksCorner
  /\ \E x \in Cols : \E y \in Rows \ {0} : grid[x][y] # 0
  /\ Fits(LastCol, 0) # {}
  /\ pieces[FirstFit(LastCol, 0)] = << <<1>> >>
  /\ place_piece(FirstFit(LastCol, 0), LastCol, 0, pieces, piece_colors).clears = 1

\* The board with the tag of piece i in the cells the piece covers at
\* (gx, gy) and every other cell as it is.
BoardCovered(i, gx, gy) ==
  [x \in Cols |-> [y \in Rows |->
     IF <<x - gx, y - gy>> \in OccupiedCells(pieces[i])
       THEN piece_colors[i] + 1
       ELSE grid[x][y]]]

\* C17: a successful place_piece that leaves no row or column full writes
\* the nonzero tag piece_colors[index] + 1 into exactly the cells the shape
\* covers, counts exactly those cells, and leaves every other cell alone;
\* the 2x2 square at (0, 0) on the empty board fills (0,0), (1,0), (0,1),
\* (1,1) only and is worth 40.
C17_PlacementWritesExactlyCoveredCells ==
  /\ \A i \in Idx : \A gx \in Cols : \A gy \in Rows :
       (/\ ~used[i]
        /\ InGridAndEmpty(grid, pieces[i], gx, gy)
        /\ FullLineCount(BoardCovered(i, gx, gy)) = 0) =>
         LET r == place_piece(i, gx, gy, pieces, piece_colors)
         IN /\ r.ret
            /\ r.grid = BoardCovered(i, gx, gy)
            /\ r.placed_blocks = Cardinality(OccupiedCells(pieces[i]))
            /\ piece_colors[i] + 1 # 0
  /\ LET sq == WritePiece(EmptyGrid, PIECES[7], 0, 0, 1)
     IN /\ \A x \in Cols : \A y \in Rows :
             (sq[x][y] # 0) <=> (<<x, y>> \in {<<0, 0>>, <<1, 0>>, <<0, 1>>, <<1, 1>>})
        /\ PlacementScore(PlacedBlocks(PIECES[7])) = 40

\* The small L placed first on an empty board: three cells, the cell its
\* matrix leaves open still empty.
C17_Witness ==
  /\ call.op = "place_piece"
  /\ call.placed_blocks = 3
  /\ call.clears = 0
  /\ score = 30
  /\ Cardinality({ c \in Cols \X Rows : grid[c[1]][c[2]] # 0 }) = 3

\* The unused pieces that fit at (gx, gy).
Fitting(gx, gy) ==
  { i \in Idx : ~used[i] /\ InGridAndEmpty(grid, pieces[i], gx, gy) }

\* C18: every step that changes grid, pieces, used or score and is not a
\* reset is a left click in play, not in game over, on a cell where some
\* unused piece fits, and it places exactly the lowest such index there;
\* so a click on a cell where no piece fits changes none of the four.
C18_ClickPlacesLowestFittingIndex ==
  [][(/\ grid' # grid \/ pieces' # pieces \/ used' # used \/ score' # score
      /\ ~(KeyR \/ MenuStart)) =>
       /\ state = "play"
       /\ ~game_over
       /\ \E gx \in Cols : \E gy \in Rows :
            /\ Fitting(gx, gy) # {}
            /\ LET i == CHOOSE k \in Fitting(gx, gy) : \A j \in Fitting(gx, gy) : k <= j
               IN /\ grid' = clear_full_lines(BoardCovered(i, gx, gy)).grid
                  /\ score' = score
                              + Cardinality(OccupiedCells(pieces[i])) * SCORE_PER_BLOCK
                              + call'.clears * ROWCOL_CLEAR_BONUS
                  /\ IF call'.spawned
                       THEN used' = [j \in Idx |-> FALSE]
                       ELSE used' = [used EXCEPT ![i] = TRUE] /\ pieces' = pieces
    ]_vars

\* Index 1 was placed while index 0 is still unused: piece 0 did not fit
\* on the clicked cell.
C18_Witness ==
  /\ call.op = "place_piece"
  /\ ~call.spawned
  /\ ~used[0]
  /\ used[1]

\* C19: when the board with the piece written has no full row and no full
\* column, clear_full_lines returns 0 and place_piece leaves that board as
\* written, cells with empty cells below them included.
C19_NoClearNoGravity ==
  \A i \in Idx : \A gx \in Cols : \A gy \in Rows :
    (/\ ~used[i]
     /\ InGridAndEmpty(grid, pieces[i], gx, gy)
     /\ FullLineCount(BoardWithPiece(i, gx, gy)) = 0) =>
      /\ clear_full_lines(BoardWithPiece(i, gx, gy)).cleared = 0
      /\ place_piece(i, gx, gy, pieces, piece_colors).clears = 0
      /\ place_piece(i, gx, gy, pieces, piece_colors).grid = BoardWithPiece(i, gx, gy)

\* After a placement that cleared nothing a cell hangs over an empty cell.
C19_Witness ==
  /\ call.op = "place_piece"
  /\ call.clears = 0
  /\ \E x \in Cols : \E y \in Rows :
       /\ y + 1 \in Rows
       /\ grid[x][y] # 0
       /\ grid[x][y + 1] = 0

\* C20: after place_piece has returned no column is full, and if the call
\* cleared a line the top row (y = 0) is empty.
C20_NoFullColumnTopRowEmpty ==
  call.op = "place_piece" =>
    /\ \A x \in Cols : \E y \in Rows : grid[x][y] = 0
    /\ call.clears > 0 => \A x \in Cols : grid[x][0] = 0

\* A placement that cleared a line and left cells on the board.
C20_Witness ==
  /\ call.op = "place_piece"
  /\ call.clears > 0
  /\ \E x \in Cols : \E y \in Rows : grid[x][y] # 0

====
